---- MODULE Spec2Model ----
(***************************************************************************)
(* Model of the inversion-api-spec crate (src/src/lib.rs): the document    *)
(* model IApiSpecDoc / IApiSpec / Feature / UnstableFeature / Type /       *)
(* StructContent / Call, the serde-derived JSON codec selected by the      *)
(* #[serde(...)] attributes, IApiSpecDoc::parse, Type::doc and the         *)
(* once_cell Lazy fixture of the test module.                              *)
(*                                                                         *)
(* Representation.                                                         *)
(*   JSON text     [layout, tree]; a tree is a one-field record            *)
(*                 [null], [bool], [num], [big], [float], [str], [arr],    *)
(*                 [obj] (a sequence of [k, v] members, duplicates         *)
(*                 allowed) or [bad] (a place where the text is not        *)
(*                 well-formed JSON).                                      *)
(*   Option<T>     <<>> is None, <<v>> is Some(v).                         *)
(*   IndexMap<K,V> a sequence of [key, value] entries with unique keys.    *)
(*   Vec<T>        a sequence.                                             *)
(*   struct        a record with the Rust field names.                     *)
(*   enum Type     a one-field record named by the variant, e.g.           *)
(*                 [Optional |-> [doc |-> <<>>, content |-> t]].           *)
(*   Result<T,E>   [Ok |-> v] or [Err |-> e].                              *)
(*                                                                         *)
(* A run of Optional { doc: None, content } nested height times is kept as *)
(* one value, [Tower |-> [height, content]], and its text as one tree,     *)
(* [nest |-> [count, inner]], so that a nesting as deep as serde_json's    *)
(* recursion limit can be written down; both stand for the nested value    *)
(* and the nested text, level by level.                                    *)
(***************************************************************************)
EXTENDS Integers, Sequences, FiniteSets, TLC

\* ------------------------------------------------------------------------
\* Bounds of the model
\* ------------------------------------------------------------------------
MaxDepth == 3

MaxKeys == 3

NumThreads == 3

\* ------------------------------------------------------------------------
\* Result and Option
\* ------------------------------------------------------------------------
Ok(v) == [Ok |-> v]

Err(e) == [Err |-> e]

IsOk(r) == "Ok" \in DOMAIN r

IsErr(r) == "Err" \in DOMAIN r

None == <<>>

Some(v) == <<v>>

\* ------------------------------------------------------------------------
\* JSON trees
\* ------------------------------------------------------------------------
JNull == [null |-> TRUE]

JBool(b) == [bool |-> b]

JNum(n) == [num |-> n]

\* an integer literal above u32::MAX, e.g. 4294967296
JBig == [big |-> TRUE]

\* a literal with a fraction, e.g. 1.5
JFloat == [float |-> TRUE]

JStr(s) == [str |-> s]

JArr(a) == [arr |-> a]

JObj(m) == [obj |-> m]

\* a place where the text is not well-formed
JBad == [bad |-> TRUE]

\* count objects {"type":"optional","content":..} one inside the other,
\* the innermost holding the tree inner
JNest(count, inner) == [nest |-> [count |-> count, inner |-> inner]]

KV(k, v) == [k |-> k, v |-> v]

JKinds == {"null", "bool", "num", "big", "float", "str", "arr", "obj", "bad", "nest"}

JKind(j) == CHOOSE k \in JKinds : k \in DOMAIN j

RECURSIVE WellFormed(_)
\* TRUE iff the tree holds no malformed place
WellFormed(j) ==
    CASE JKind(j) = "bad" -> FALSE
      [] JKind(j) = "arr" -> \A i \in 1..Len(j.arr) : WellFormed(j.arr[i])
      [] JKind(j) = "obj" -> \A i \in 1..Len(j.obj) : WellFormed(j.obj[i].v)
      [] JKind(j) = "nest" -> WellFormed(j.nest.inner)
      [] OTHER -> TRUE

\* ------------------------------------------------------------------------
\* serde_json errors as wrapped by IApiSpecDoc::parse
\* ------------------------------------------------------------------------
\* serde_json::Error: its Category and the class of its message
SyntaxError == [category |-> "Syntax", msg |-> "syntax"]

DataError(m) == [category |-> "Data", msg |-> m]

\* ------------------------------------------------------------------------
\* Names: #[serde(rename_all = "camelCase")]
\* ------------------------------------------------------------------------
\* first letter of a word to upper case
Upper1(w) ==
    CASE w = "api" -> "Api"
      [] w = "spec" -> "Spec"
      [] w = "type" -> "Type"
      [] w = "features" -> "Features"
      [] w = "out" -> "Out"
      [] w = "in" -> "In"
      [] w = "revision" -> "Revision"
      [] OTHER -> w

\* first letter of a word to lower case
Lower1(w) ==
    CASE w = "Null" -> "null"
      [] w = "Bool" -> "bool"
      [] w = "I32" -> "i32"
      [] w = "U32" -> "u32"
      [] w = "I64" -> "i64"
      [] w = "U64" -> "u64"
      [] w = "F64" -> "f64"
      [] w = "Bytes" -> "bytes"
      [] w = "String" -> "string"
      [] w = "Optional" -> "optional"
      [] w = "Array" -> "array"
      [] w = "Tuple" -> "tuple"
      [] w = "Struct" -> "struct"
      [] w = "Enum" -> "enum"
      [] w = "Named" -> "named"
      [] OTHER -> w

RECURSIVE JoinWith(_, _)
\* the Rust identifier of a field: its words joined by the separator
JoinWith(words, sep) ==
    IF Len(words) = 1 THEN words[1]
    ELSE words[1] \o sep \o JoinWith(Tail(words), sep)

RECURSIVE PascalTail(_)
PascalTail(words) ==
    IF words = <<>> THEN "" ELSE Upper1(words[1]) \o PascalTail(Tail(words))

Snake(words) == JoinWith(words, "_")

\* rename_all = "camelCase" applied to a snake_case field
CamelField(words) == words[1] \o PascalTail(Tail(words))

PascalIdent(words) == JoinWith(words \o <<"">>, "")

\* rename_all not applied to the variants: the discriminant is the
\* identifier of the variant
CamelVariant_unrenamed(words) == PascalIdent(words)

\* rename_all = "camelCase" applied to a PascalCase variant
CamelVariant(words) == Lower1(words[1]) \o JoinWith(Tail(words) \o <<"">>, "")

\* ------------------------------------------------------------------------
\* The declared shapes
\* ------------------------------------------------------------------------
Fld(words, kind, skip) == [words |-> words, kind |-> kind, skip |-> skip]

\* the doc field every variant of Type declares
DocFld == Fld(<<"doc">>, "OptString", TRUE)

\* the variants of Type in declaration order, as words
VariantWords ==
    << <<"Null">>, <<"Bool">>, <<"I32">>, <<"U32">>, <<"I64">>, <<"U64">>,
       <<"F64">>, <<"Bytes">>, <<"String">>, <<"Optional">>, <<"Array">>,
       <<"Tuple">>, <<"Struct">>, <<"Enum">>, <<"Named", "Type">> >>

Variants == {PascalIdent(VariantWords[i]) : i \in 1..Len(VariantWords)}

\* the discriminant written for a variant
TagOf(variant) ==
    LET i == CHOOSE n \in 1..Len(VariantWords) : PascalIdent(VariantWords[n]) = variant
    IN  CamelVariant(VariantWords[i])

Tags == {TagOf(v) : v \in Variants}

\* the variant a discriminant names; only applied to members of Tags
VariantOfTag(tag) == CHOOSE v \in Variants : TagOf(v) = tag

VariantOf(t) ==
    IF "Tower" \in DOMAIN t THEN "Optional"
    ELSE CHOOSE v \in Variants : v \in DOMAIN t

\* the fields of a struct or of a struct variant, in declaration order
Fields(sk) ==
    CASE sk = "IApiSpecDoc" ->
            << Fld(<<"inversion", "api", "spec">>, "IApiSpec", FALSE) >>
      [] sk = "IApiSpec" ->
            << Fld(<<"id">>, "NanoId", FALSE),
               Fld(<<"title">>, "String", FALSE),
               Fld(<<"revision">>, "u32", FALSE),
               Fld(<<"error", "type">>, "String", FALSE),
               Fld(<<"unique">>, "OptBool", TRUE),
               Fld(<<"features">>, "MapFeature", FALSE),
               Fld(<<"unstable", "features">>, "MapUnstableFeature", FALSE),
               Fld(<<"types">>, "MapType", FALSE),
               Fld(<<"calls", "out">>, "MapCall", FALSE),
               Fld(<<"calls", "in">>, "MapCall", FALSE) >>
      [] sk = "Feature" ->
            << DocFld,
               Fld(<<"stablized", "revision">>, "u32", FALSE),
               Fld(<<"deprecated">>, "OptBool", TRUE) >>
      [] sk = "UnstableFeature" -> << DocFld >>
      [] sk = "StructContent" ->
            << Fld(<<"index">>, "u32", FALSE),
               Fld(<<"content">>, "BoxType", FALSE) >>
      [] sk = "Call" ->
            << DocFld,
               Fld(<<"feature">>, "String", FALSE),
               Fld(<<"input">>, "String", FALSE),
               Fld(<<"output">>, "String", FALSE) >>
      [] sk \in {"Optional", "Array"} ->
            << DocFld, Fld(<<"content">>, "BoxType", FALSE) >>
      [] sk = "Tuple" ->
            << DocFld, Fld(<<"content">>, "VecStructContent", FALSE) >>
      [] sk \in {"Struct", "Enum"} ->
            << DocFld, Fld(<<"content">>, "MapStructContent", FALSE) >>
      [] sk = "NamedType" ->
            << DocFld, Fld(<<"content">>, "String", FALSE) >>
      [] OTHER -> << DocFld >>

StructKinds ==
    {"IApiSpecDoc", "IApiSpec", "Feature", "UnstableFeature", "StructContent", "Call"}

IsOptionKind(kind) == kind \in {"OptBool", "OptString"}

\* the value kind of each IndexMap kind
MapValueKind(kind) ==
    CASE kind = "MapFeature" -> "Feature"
      [] kind = "MapUnstableFeature" -> "UnstableFeature"
      [] kind = "MapType" -> "Type"
      [] kind = "MapCall" -> "Call"
      [] kind = "MapStructContent" -> "StructContent"

MapKinds ==
    {"MapFeature", "MapUnstableFeature", "MapType", "MapCall", "MapStructContent"}

\* ------------------------------------------------------------------------
\* IndexMap
\* ------------------------------------------------------------------------
Entry(k, v) == [key |-> k, value |-> v]

IndexOfKey(map, k) ==
    IF \E i \in 1..Len(map) : map[i].key = k
    THEN CHOOSE i \in 1..Len(map) : map[i].key = k
    ELSE 0

\* a new key put in front of the entries instead of behind them
IndexMapInsert_front(map, k, v) ==
    LET i == IndexOfKey(map, k)
    IN  IF i = 0 THEN <<Entry(k, v)>> \o map
        ELSE [map EXCEPT ![i] = Entry(k, v)]

\* IndexMap::insert: a new key is appended, an existing key keeps its place
\* and takes the new value
IndexMapInsert(map, k, v) ==
    LET i == IndexOfKey(map, k)
    IN  IF i = 0 THEN Append(map, Entry(k, v))
        ELSE [map EXCEPT ![i] = Entry(k, v)]

Keys(map) == [i \in 1..Len(map) |-> map[i].key]

\* ------------------------------------------------------------------------
\* Deserialize (serde derive + serde_json)
\*
\* buffered   TRUE while a variant of Type is read back from the members
\*            that the tagged-enum visitor buffered; the text itself was
\*            read, and its nesting counted, when the buffer was filled
\* remaining  serde_json's remaining_depth while the text is being read
\* ------------------------------------------------------------------------
\* serde_json's default recursion limit, used by from_slice and from_str
RecursionLimit == 128

SetMax(S) == CHOOSE d \in S : \A e \in S : e <= d

RECURSIVE Depth(_)
\* the number of arrays and objects nested in a tree
Depth(j) ==
    CASE JKind(j) = "arr" ->
            LET ds == {Depth(j.arr[i]) : i \in 1..Len(j.arr)}
            IN  1 + SetMax(ds \cup {0})
      [] JKind(j) = "obj" ->
            LET ds == {Depth(j.obj[i].v) : i \in 1..Len(j.obj)}
            IN  1 + SetMax(ds \cup {0})
      [] JKind(j) = "nest" -> j.nest.count + Depth(j.nest.inner)
      [] OTHER -> 0

\* entering an array or an object of the text: remaining_depth -= 1, and
\* the limit is exceeded when it reaches 0
TooDeep(buffered, remaining) == ~buffered /\ remaining - 1 = 0

Enter(buffered, remaining) == IF buffered THEN remaining ELSE remaining - 1

\* a value of the text that is read without being decoded (the value of an
\* unknown key, a member buffered for a variant of Type) is still parsed
Unreadable(j, buffered, remaining) ==
    ~buffered /\ (~WellFormed(j) \/ Depth(j) >= remaining)

\* what is inside the outermost object of a nest
Inside(j) ==
    IF j.nest.count = 1 THEN j.nest.inner
    ELSE JNest(j.nest.count - 1, j.nest.inner)

\* the outermost object of a nest written out
Unfold(j) ==
    IF JKind(j) = "nest"
    THEN JObj(<<KV("type", JStr("optional")), KV("content", Inside(j))>>)
    ELSE j

\* the error for a tree of the wrong JSON type
WrongType(j) ==
    IF JKind(j) = "bad" THEN Err(SyntaxError) ELSE Err(DataError("invalid type"))

\* String, and NanoId which is a newtype of String
DeString(j) == IF JKind(j) = "str" THEN Ok(j.str) ELSE WrongType(j)

DeBool(j) == IF JKind(j) = "bool" THEN Ok(j.bool) ELSE WrongType(j)

\* u32: an integer literal in 0 ..= u32::MAX
DeU32(j) ==
    CASE JKind(j) = "num" ->
            IF j.num >= 0 THEN Ok(j.num) ELSE Err(DataError("invalid value"))
      [] JKind(j) = "big" -> Err(DataError("invalid value"))
      [] OTHER -> WrongType(j)

\* the position of the field a key names, 0 for an unknown key
FieldIndex(fields, key) ==
    IF \E i \in 1..Len(fields) : CamelField(fields[i].words) = key
    THEN CHOOSE i \in 1..Len(fields) : CamelField(fields[i].words) = key
    ELSE 0

\* a field that never appeared left empty instead of reported
Finish_partial(fields, slots) ==
    Ok([n \in {Snake(fields[i].words) : i \in 1..Len(fields)} |->
          LET i == CHOOSE x \in 1..Len(fields) : Snake(fields[x].words) = n
          IN  IF slots[i] = None THEN None ELSE slots[i][1]])

\* the value of a struct once every key was visited: an Option field that
\* never appeared is None, any other field that never appeared is an error
Finish(fields, slots) ==
    IF \E i \in 1..Len(fields) : slots[i] = None /\ ~IsOptionKind(fields[i].kind)
    THEN Err(DataError("missing field"))
    ELSE Ok([n \in {Snake(fields[i].words) : i \in 1..Len(fields)} |->
               LET i == CHOOSE x \in 1..Len(fields) : Snake(fields[x].words) = n
               IN  IF slots[i] = None THEN None ELSE slots[i][1]])

RECURSIVE De(_, _, _, _)
RECURSIVE DeMapEntries(_, _, _, _, _, _)
RECURSIVE DeSeqItems(_, _, _, _, _, _)
RECURSIVE DeFieldsMap(_, _, _, _, _, _)
RECURSIVE DeFieldsSeq(_, _, _, _, _, _)
RECURSIVE DeTagged(_, _, _, _, _, _)

\* Option<T>: null is None, anything else is Some of T
DeOption(inner, j, buffered, remaining) ==
    IF JKind(j) = "null" THEN Ok(None)
    ELSE LET r == De(inner, j, buffered, remaining)
         IN  IF IsOk(r) THEN Ok(Some(r.Ok)) ELSE r

\* IndexMap<String, V>: the members are inserted in the order of the text
DeMapEntries(vk, m, i, map, buffered, remaining) ==
    IF i > Len(m) THEN Ok(map)
    ELSE LET r == De(vk, m[i].v, buffered, remaining)
         IN  IF IsErr(r) THEN r
             ELSE DeMapEntries(vk, m, i + 1, IndexMapInsert(map, m[i].k, r.Ok),
                               buffered, remaining)

DeIndexMap(vk, j, buffered, remaining) ==
    IF JKind(j) = "obj"
    THEN IF TooDeep(buffered, remaining) THEN Err(SyntaxError)
         ELSE DeMapEntries(vk, j.obj, 1, <<>>, buffered, Enter(buffered, remaining))
    ELSE WrongType(j)

\* Vec<T>
DeSeqItems(vk, a, i, out, buffered, remaining) ==
    IF i > Len(a) THEN Ok(out)
    ELSE LET r == De(vk, a[i], buffered, remaining)
         IN  IF IsErr(r) THEN r
             ELSE DeSeqItems(vk, a, i + 1, Append(out, r.Ok), buffered, remaining)

DeVec(vk, j, buffered, remaining) ==
    IF JKind(j) = "arr"
    THEN IF TooDeep(buffered, remaining) THEN Err(SyntaxError)
         ELSE DeSeqItems(vk, j.arr, 1, <<>>, buffered, Enter(buffered, remaining))
    ELSE WrongType(j)

\* a derived struct read from an object: a known key is decoded into its
\* slot (twice is an error), an unknown key is skipped
DeFieldsMap(fields, m, i, slots, buffered, remaining) ==
    IF i > Len(m) THEN Finish(fields, slots)
    ELSE LET f == FieldIndex(fields, m[i].k)
         IN  IF f = 0
             THEN IF Unreadable(m[i].v, buffered, remaining) THEN Err(SyntaxError)
                  ELSE DeFieldsMap(fields, m, i + 1, slots, buffered, remaining)
             ELSE IF slots[f] # None THEN Err(DataError("duplicate field"))
             ELSE LET r == De(fields[f].kind, m[i].v, buffered, remaining)
                  IN  IF IsErr(r) THEN r
                      ELSE DeFieldsMap(fields, m, i + 1,
                                       [slots EXCEPT ![f] = Some(r.Ok)],
                                       buffered, remaining)

\* a derived struct read from an array: the fields by position
DeFieldsSeq(fields, a, i, slots, buffered, remaining) ==
    IF i > Len(fields)
    THEN IF Len(a) > Len(fields)
         THEN IF buffered THEN Err(DataError("invalid length")) ELSE Err(SyntaxError)
         ELSE Finish(fields, slots)
    ELSE IF i > Len(a) THEN Err(DataError("invalid length"))
    ELSE LET r == De(fields[i].kind, a[i], buffered, remaining)
         IN  IF IsErr(r) THEN r
             ELSE DeFieldsSeq(fields, a, i + 1, [slots EXCEPT ![i] = Some(r.Ok)],
                              buffered, remaining)

EmptySlots(fields) == [i \in 1..Len(fields) |-> None]

DeStruct(sk, j, buffered, remaining) ==
    CASE JKind(j) \in {"obj", "arr"} /\ TooDeep(buffered, remaining) -> Err(SyntaxError)
      [] JKind(j) = "obj" /\ ~TooDeep(buffered, remaining) ->
            DeFieldsMap(Fields(sk), j.obj, 1, EmptySlots(Fields(sk)),
                        buffered, Enter(buffered, remaining))
      [] JKind(j) = "arr" /\ ~TooDeep(buffered, remaining) ->
            DeFieldsSeq(Fields(sk), j.arr, 1, EmptySlots(Fields(sk)),
                        buffered, Enter(buffered, remaining))
      [] OTHER -> WrongType(j)

\* the variant a discriminant value names
DeVariantTag(j) ==
    CASE JKind(j) = "str" ->
            IF j.str \in Tags THEN Ok(VariantOfTag(j.str))
            ELSE Err(DataError("unknown variant"))
      [] OTHER -> WrongType(j)

\* the struct variant read from the buffered members
DeVariant(variant, content) ==
    LET r == DeStruct(variant, content, TRUE, 0)
    IN  IF IsErr(r) THEN r ELSE Ok([v \in {variant} |-> r.Ok])

\* #[serde(tag = "type")]: the members are read in the order of the text,
\* the discriminant is decoded where it stands and the others are buffered;
\* the variant is then read from the buffer
DeTagged(m, i, tag, rest, buffered, remaining) ==
    IF i > Len(m)
    THEN IF tag = None THEN Err(DataError("missing field"))
         ELSE DeVariant(tag[1], JObj(rest))
    ELSE IF m[i].k = "type"
         THEN IF tag # None THEN Err(DataError("duplicate field"))
              ELSE LET r == DeVariantTag(m[i].v)
                   IN  IF IsErr(r) THEN r
                       ELSE DeTagged(m, i + 1, Some(r.Ok), rest, buffered, remaining)
         ELSE IF Unreadable(m[i].v, buffered, remaining) THEN Err(SyntaxError)
              ELSE DeTagged(m, i + 1, tag, Append(rest, m[i]), buffered, remaining)

\* Type::Optional { doc: None, content } nested height times
Tower(height, content) == [Tower |-> [height |-> height, content |-> content]]

\* a nest read as a Type: its outermost object is entered, what is inside
\* it is buffered as the content member, and the Optionals are then read
\* from the buffer down to the innermost tree
DeNest(j, buffered, remaining) ==
    IF TooDeep(buffered, remaining) \/ Unreadable(Inside(j), buffered, Enter(buffered, remaining))
    THEN Err(SyntaxError)
    ELSE LET r == De("Type", j.nest.inner, TRUE, 0)
         IN  IF IsErr(r) THEN r ELSE Ok(Tower(j.nest.count, r.Ok))

\* enum Type
DeType(j, buffered, remaining) ==
    CASE JKind(j) = "nest" -> DeNest(j, buffered, remaining)
      [] JKind(j) \in {"obj", "arr"} /\ TooDeep(buffered, remaining) -> Err(SyntaxError)
      [] JKind(j) = "obj" /\ ~TooDeep(buffered, remaining) ->
            DeTagged(j.obj, 1, None, <<>>, buffered, Enter(buffered, remaining))
      [] JKind(j) = "arr" /\ ~TooDeep(buffered, remaining) ->
            IF j.arr = <<>> THEN Err(DataError("missing field"))
            ELSE LET r == DeVariantTag(j.arr[1])
                 IN  IF IsErr(r) THEN r
                     ELSE IF \E i \in 2..Len(j.arr) :
                                Unreadable(j.arr[i], buffered, Enter(buffered, remaining))
                          THEN Err(SyntaxError)
                          ELSE DeVariant(r.Ok, JArr(Tail(j.arr)))
      [] OTHER -> WrongType(j)

De(kind, j, buffered, remaining) ==
    CASE kind \in {"String", "NanoId"} -> DeString(j)
      [] kind = "u32" -> DeU32(j)
      [] kind = "bool" -> DeBool(j)
      [] kind = "OptBool" -> DeOption("bool", j, buffered, remaining)
      [] kind = "OptString" -> DeOption("String", j, buffered, remaining)
      [] kind \in MapKinds ->
            DeIndexMap(MapValueKind(kind), Unfold(j), buffered, remaining)
      [] kind = "VecStructContent" -> DeVec("StructContent", j, buffered, remaining)
      [] kind \in {"Type", "BoxType"} -> DeType(j, buffered, remaining)
      [] OTHER -> DeStruct(kind, Unfold(j), buffered, remaining)

\* serde_json::from_slice / from_str: one value, then the end of the text
from_slice(text) ==
    LET r == De("IApiSpecDoc", text.tree, FALSE, RecursionLimit)
    IN  IF IsOk(r) /\ text.trailing THEN Err(SyntaxError) ELSE r

\* std::io::Error::new(ErrorKind::Other, e)
IoError(e) == [kind |-> "Other", inner |-> e]

\* IApiSpecDoc::parse
parse(data) ==
    LET r == from_slice(data)
    IN  IF IsOk(r) THEN r ELSE Err(IoError(r.Err))

\* ------------------------------------------------------------------------
\* Serialize (serde derive + serde_json)
\* ------------------------------------------------------------------------
RECURSIVE Ser(_, _)
RECURSIVE SerFields(_, _, _)

\* the attribute taken for #[serde(skip_serializing)]: the field is never
\* written
Skipped_always(field, v) == field.skip

\* the attribute left out: an unset field is written as null
Skipped_never(field, v) == FALSE

\* #[serde(skip_serializing_if = "Option::is_none")]
Skipped(field, v) == field.skip /\ v = None

\* the members of a derived struct: its fields in declaration order
SerFields(fields, v, i) ==
    IF i > Len(fields) THEN <<>>
    ELSE LET x == v[Snake(fields[i].words)]
         IN  IF Skipped(fields[i], x) THEN SerFields(fields, v, i + 1)
             ELSE <<KV(CamelField(fields[i].words), Ser(fields[i].kind, x))>>
                  \o SerFields(fields, v, i + 1)

SerStruct(sk, v) == JObj(SerFields(Fields(sk), v, 1))

SerOption(inner, v) == IF v = None THEN JNull ELSE Ser(inner, v[1])

\* the entries written last to first
SerIndexMap_reversed(vk, map) ==
    JObj([i \in 1..Len(map) |->
            KV(map[Len(map) + 1 - i].key, Ser(vk, map[Len(map) + 1 - i].value))])

SerIndexMap(vk, map) ==
    JObj([i \in 1..Len(map) |-> KV(map[i].key, Ser(vk, map[i].value))])

SerVec(vk, vec) == JArr([i \in 1..Len(vec) |-> Ser(vk, vec[i])])

\* #[serde(tag = "type")]: the discriminant, then the fields of the variant
SerType(t) ==
    IF "Tower" \in DOMAIN t
    THEN JNest(t.Tower.height, Ser("Type", t.Tower.content))
    ELSE LET variant == VariantOf(t)
         IN  JObj(<<KV("type", JStr(TagOf(variant)))>>
                  \o SerFields(Fields(variant), t[variant], 1))

Ser(kind, v) ==
    CASE kind \in {"String", "NanoId"} -> JStr(v)
      [] kind = "u32" -> JNum(v)
      [] kind = "bool" -> JBool(v)
      [] kind = "OptBool" -> SerOption("bool", v)
      [] kind = "OptString" -> SerOption("String", v)
      [] kind \in MapKinds -> SerIndexMap(MapValueKind(kind), v)
      [] kind = "VecStructContent" -> SerVec("StructContent", v)
      [] kind \in {"Type", "BoxType"} -> SerType(v)
      [] OTHER -> SerStruct(kind, v)

Text(layout, tree) == [layout |-> layout, tree |-> tree, trailing |-> FALSE]

\* serde_json::to_string_pretty
to_string_pretty(d) == Text("pretty", Ser("IApiSpecDoc", d))

\* str::trim on both sides of the comparison: the layout does not count
Normalize(text) == [tree |-> text.tree, trailing |-> text.trailing]

\* ------------------------------------------------------------------------
\* Type::doc
\* ------------------------------------------------------------------------
\* the arm of Optional and Array bound to the doc of the content
doc_nested(self) ==
    IF "Tower" \in DOMAIN self THEN None
    ELSE LET variant == VariantOf(self)
         IN  IF variant \in {"Optional", "Array"}
             THEN LET inner == self[variant].content
                  IN  IF "Tower" \in DOMAIN inner THEN None
                      ELSE inner[VariantOf(inner)].doc
             ELSE self[variant].doc

doc(self) ==
    CASE "Null" \in DOMAIN self -> self.Null.doc
      [] "Bool" \in DOMAIN self -> self.Bool.doc
      [] "I32" \in DOMAIN self -> self.I32.doc
      [] "U32" \in DOMAIN self -> self.U32.doc
      [] "I64" \in DOMAIN self -> self.I64.doc
      [] "U64" \in DOMAIN self -> self.U64.doc
      [] "F64" \in DOMAIN self -> self.F64.doc
      [] "Bytes" \in DOMAIN self -> self.Bytes.doc
      [] "String" \in DOMAIN self -> self.String.doc
      [] "Optional" \in DOMAIN self -> self.Optional.doc
      [] "Tower" \in DOMAIN self -> None
      [] "Array" \in DOMAIN self -> self.Array.doc
      [] "Tuple" \in DOMAIN self -> self.Tuple.doc
      [] "Struct" \in DOMAIN self -> self.Struct.doc
      [] "Enum" \in DOMAIN self -> self.Enum.doc
      [] "NamedType" \in DOMAIN self -> self.NamedType.doc

\* ------------------------------------------------------------------------
\* Documents the host may hand to parse
\* ------------------------------------------------------------------------
Compact(tree) == Text("compact", tree)

Obj1(k, v) == JObj(<<KV(k, v)>>)

\* the value of the first member with the key; JBad when there is none
Get(j, key) ==
    IF JKind(j) = "obj" /\ \E i \in 1..Len(j.obj) : j.obj[i].k = key
    THEN j.obj[CHOOSE i \in 1..Len(j.obj) :
                 j.obj[i].k = key /\ \A h \in 1..(i - 1) : j.obj[h].k # key].v
    ELSE JBad

Has(j, key) == JKind(j) = "obj" /\ \E i \in 1..Len(j.obj) : j.obj[i].k = key

MemberKeys(j) ==
    IF JKind(j) = "obj" THEN [i \in 1..Len(j.obj) |-> j.obj[i].k] ELSE <<>>

\* the members with the value of one key replaced
Put(m, key, v) == [i \in 1..Len(m) |-> IF m[i].k = key THEN KV(key, v) ELSE m[i]]

Drop(m, key) == SelectSeq(m, LAMBDA e : e.k # key)

\* a Type object: its discriminant first, then the given members
TypeJ(tag, members) == JObj(<<KV("type", JStr(tag))>> \o members)

PrimJ(tag) == TypeJ(tag, <<>>)

NamedJ(name) == TypeJ("namedType", <<KV("content", JStr(name))>>)

WrapJ(tag, inner) == TypeJ(tag, <<KV("content", inner)>>)

StructContentJ(index, content) ==
    JObj(<<KV("index", JNum(index)), KV("content", content)>>)

\* the members of the example document of the interchange format
FixtureMembers ==
    << KV("id", JStr("gwSMYpO3kr5yLvTNR3KR4")),
       KV("title", JStr("Key Value Persistence")),
       KV("revision", JNum(2)),
       KV("errorType", JStr("structItem")),
       KV("unique", JBool(TRUE)),
       KV("features", Obj1("set", JObj(<<KV("doc", JStr("...")),
                                         KV("stablizedRevision", JNum(0))>>))),
       KV("unstableFeatures", Obj1("list", Obj1("doc", JStr("...")))),
       KV("types", Obj1("intItem", PrimJ("i32"))),
       KV("callsOut", JObj(<<>>)),
       KV("callsIn", Obj1("set", JObj(<<KV("feature", JStr("set")),
                                        KV("input", JStr("structItem")),
                                        KV("output", JStr("arrayItem"))>>))) >>

DocJ(members) == Obj1("inversionApiSpec", JObj(members))

\* include_bytes!("fixture_spec.json")
JSON_FIXTURE_SRC == Text("pretty", DocJ(FixtureMembers))

SpecKeys == {FixtureMembers[i].k : i \in 1..Len(FixtureMembers)}

\* the fixture with one field of the spec given another value
WithField(key, v) == Compact(DocJ(Put(FixtureMembers, key, v)))

WithTypes(members) == WithField("types", JObj(members))

\* values of every JSON type, put where another type is declared
Scalars ==
    {JNull, JBool(TRUE), JNum(7), JNum(0 - 1), JBig, JFloat, JStr("x"),
     JArr(<<>>), JObj(<<>>), JBad}

\* one field of the spec replaced by a value of each JSON type
SwapDocs == {WithField(k, v) : k \in SpecKeys, v \in Scalars}

\* one field of the spec left out
MissingDocs == {Compact(DocJ(Drop(FixtureMembers, k))) : k \in SpecKeys}

\* the content a variant declares, well-shaped
ContentMembers(tag) ==
    CASE tag \in {"optional", "array"} -> <<KV("content", PrimJ("i32"))>>
      [] tag = "tuple" ->
            <<KV("content", JArr(<<StructContentJ(0, PrimJ("bool"))>>))>>
      [] tag \in {"struct", "enum"} ->
            <<KV("content", Obj1("f", StructContentJ(0, PrimJ("string"))))>>
      [] tag = "namedType" -> <<KV("content", JStr("intItem"))>>
      [] OTHER -> <<>>

\* the doc member: absent, null or set
DocMembers == {<<>>, <<KV("doc", JNull)>>, <<KV("doc", JStr("d"))>>}

\* discriminants that name no variant
UnknownTags == {"float128", "namedtype", "Null", ""}

\* one type per discriminant, with and without doc
TagDocs ==
    {WithTypes(<<KV("t", TypeJ(tag, d \o ContentMembers(tag)))>>) :
        tag \in Tags \cup UnknownTags, d \in DocMembers}

RECURSIVE NestJ(_, _)
\* the leaf wrapped in the given variants, outermost first
NestJ(wrappers, leaf) ==
    IF wrappers = <<>> THEN leaf
    ELSE WrapJ(wrappers[1], NestJ(Tail(wrappers), leaf))

WrapperSeqs == UNION {[1..n -> {"optional", "array"}] : n \in 0..MaxDepth}

NestDocs ==
    {WithTypes(<<KV("t", NestJ(w, NamedJ("intItem")))>>) : w \in WrapperSeqs}

\* map keys, deliberately not in alphabetical order
KeyNames == <<"c", "a", "d", "b", "e", "f">>

Perms(n) == {p \in [1..n -> 1..n] : \A i, j \in 1..n : i # j => p[i] # p[j]}

\* the same value under each key, the keys in the order of the permutation
Permuted(p, v) == JObj([i \in 1..Len(p) |-> KV(KeyNames[p[i]], v)])

CallJ ==
    JObj(<<KV("feature", JStr("set")), KV("input", JStr("intItem")),
           KV("output", JStr("intItem"))>>)

PermDocs ==
    UNION {
      { WithField("features", Permuted(p, Obj1("stablizedRevision", JNum(1)))),
        WithField("unstableFeatures", Permuted(p, JObj(<<>>))),
        WithField("types", Permuted(p, PrimJ("u64"))),
        WithField("callsOut", Permuted(p, CallJ)),
        WithField("callsIn", Permuted(p, CallJ)),
        WithTypes(<<KV("s", WrapJ("struct",
                        Permuted(p, StructContentJ(1, PrimJ("bytes")))))>>),
        WithTypes(<<KV("e", WrapJ("enum",
                        Permuted(p, StructContentJ(1, PrimJ("f64")))))>>) }
      : p \in Perms(MaxKeys) }

\* the optional fields of the records: absent, null or set
OptionDocs ==
    {WithField("features", Obj1("set", JObj(d \o <<KV("stablizedRevision", JNum(3))>> \o dep))) :
        d \in DocMembers,
        dep \in {<<>>, <<KV("deprecated", JNull)>>, <<KV("deprecated", JBool(TRUE))>>}}
    \cup {WithField("unstableFeatures", Obj1("list", JObj(d))) : d \in DocMembers}
    \cup {WithField("callsOut", Obj1("get", JObj(d \o CallJ.obj))) : d \in DocMembers}

\* StructContent entries of struct, enum and tuple, with and without a doc
\* member of their own
StructContentDocs ==
    {WithTypes(<<KV("t", WrapJ(tag,
        IF tag = "tuple"
        THEN JArr(<<JObj(d \o StructContentJ(ix, c).obj)>>)
        ELSE Obj1("f", JObj(d \o StructContentJ(ix, c).obj))))>>) :
        tag \in {"tuple", "struct", "enum"},
        d \in DocMembers,
        ix \in {0, 5},
        c \in {PrimJ("bool"), WrapJ("optional", NamedJ("intItem"))}}
    \cup {WithTypes(<<KV("t", WrapJ("struct", Obj1("f", JObj(<<KV("index", ix),
                                     KV("content", PrimJ("bool"))>>))))>>) :
            ix \in Scalars}

\* other shapes: repeated keys, unknown keys, positional records, text after
\* the document, a discriminant that is not the first member
OtherDocs ==
    { JSON_FIXTURE_SRC,
      Compact(DocJ(FixtureMembers)),
      [Compact(DocJ(FixtureMembers)) EXCEPT !.trailing = TRUE],
      Compact(JBad),
      Compact(JObj(<<>>)),
      Compact(JArr(<<JObj(FixtureMembers)>>)),
      Compact(JArr(<<JObj(FixtureMembers), JNull>>)),
      Compact(JObj(<<KV("inversionApiSpec", JObj(FixtureMembers)),
                     KV("inversionApiSpec", JObj(FixtureMembers))>>)),
      Compact(DocJ(FixtureMembers \o <<KV("extra", JNull)>>)),
      Compact(DocJ(FixtureMembers \o <<KV("extra", JArr(<<JBad>>))>>)),
      Compact(DocJ(FixtureMembers \o <<KV("unique", JNull)>>)),
      Compact(DocJ(<<KV("unique", JNull)>> \o Drop(FixtureMembers, "unique"))),
      Compact(Obj1("inversionApiSpec",
                   JArr([i \in 1..Len(FixtureMembers) |-> FixtureMembers[i].v]))),
      Compact(Obj1("inversionApiSpec",
                   JArr([i \in 1..4 |-> FixtureMembers[i].v]))),
      WithTypes(<<KV("a", PrimJ("i32")), KV("b", PrimJ("bool")), KV("a", PrimJ("u32"))>>),
      WithTypes(<<KV("t", JObj(<<KV("content", JStr("intItem")),
                                 KV("doc", JStr("d")),
                                 KV("type", JStr("namedType"))>>))>>),
      WithTypes(<<KV("t", JObj(<<KV("content", JBad),
                                 KV("type", JStr("float128"))>>))>>),
      WithTypes(<<KV("t", JObj(<<KV("type", JStr("float128")),
                                 KV("content", JBad)>>))>>),
      WithTypes(<<KV("t", JObj(<<KV("type", JStr("i32")),
                                 KV("type", JStr("i32"))>>))>>),
      WithTypes(<<KV("t", JObj(<<KV("doc", JStr("d"))>>))>>),
      WithTypes(<<KV("t", JObj(<<KV("type", JNum(1))>>))>>),
      WithTypes(<<KV("t", JObj(<<KV("type", JStr("i32")),
                                 KV("payload", Obj1("doc", JStr("d")))>>))>>),
      WithTypes(<<KV("t", JObj(<<KV("type", JStr("array"))>>))>>),
      WithTypes(<<KV("t", JObj(<<KV("type", JStr("array")),
                                 KV("content", JStr("i32"))>>))>>),
      WithTypes(<<KV("t", JArr(<<JStr("bool"), JStr("d")>>))>>),
      WithTypes(<<KV("t", JArr(<<JStr("namedType"), JNull, JStr("intItem")>>))>>),
      WithTypes(<<KV("t", JArr(<<JStr("bool"), JNull, JNull>>))>>),
      WithTypes(<<KV("t", JArr(<<>>))>>),
      WithTypes(<<KV("t", JStr("i32"))>>),
      WithTypes(<<KV("t", WrapJ("optional",
                     TypeJ("namedType", <<KV("doc", JStr("inner")),
                                          KV("content", JStr("intItem"))>>)))>>),
      WithTypes(<<KV("t", TypeJ("array", <<KV("doc", JStr("outer")),
                     KV("content", TypeJ("string", <<KV("doc", JStr("inner"))>>))>>))>>) }

\* every document the host hands to parse in this model
Inputs ==
    SwapDocs \cup MissingDocs \cup TagDocs \cup NestDocs \cup PermDocs
    \cup OptionDocs \cup StructContentDocs \cup OtherDocs

\* ------------------------------------------------------------------------
\* Documents built directly from the public fields
\* ------------------------------------------------------------------------
NamedT(name) == [NamedType |-> [doc |-> None, content |-> name]]

\* a NamedType wrapped in the given number of Optionals
NestT(n) ==
    CASE n = 0 -> NamedT("intItem")
      [] n = 1 -> [Optional |-> [doc |-> Some("o"), content |-> NamedT("intItem")]]
      [] OTHER -> Tower(n, NamedT("intItem"))

\* an IApiSpecDoc holding one type
BuiltDoc(t) ==
    [inversion_api_spec |->
        [id |-> "V1StGXR8_Z5jdHi6B-myT", title |-> "built", revision |-> 1,
         error_type |-> "intItem", unique |-> None,
         features |-> <<Entry("set", [doc |-> None, stablized_revision |-> 1,
                                      deprecated |-> Some(FALSE)])>>,
         unstable_features |-> <<>>,
         types |-> <<Entry("t", t)>>,
         calls_out |-> <<>>,
         calls_in |-> <<>>]]

\* the objects nested around and inside the Optionals: the document, its
\* spec, its types and the NamedType
Enclosing == Depth(Ser("IApiSpecDoc", BuiltDoc(NamedT("intItem"))))

\* shallow nestings, the deepest one the decoder still reads, and one more
BuiltDepths == {0, 1, 2, RecursionLimit - Enclosing - 1, RecursionLimit - Enclosing}

Built == {BuiltDoc(NestT(n)) : n \in BuiltDepths}

\* ------------------------------------------------------------------------
\* Every Type of a document, nested ones included
\* ------------------------------------------------------------------------
RECURSIVE SubTypes(_)
RECURSIVE SubTypesOf(_, _)

\* the types of a sequence of StructContent
SubTypesOf(items, i) ==
    IF i > Len(items) THEN <<>>
    ELSE SubTypes(items[i].content) \o SubTypesOf(items, i + 1)

\* the Optional at each level of a tower, outermost first
Levels(t) ==
    [i \in 1..t.Tower.height |->
        IF i = t.Tower.height
        THEN [Optional |-> [doc |-> None, content |-> t.Tower.content]]
        ELSE Tower(t.Tower.height - i + 1, t.Tower.content)]

SubTypes(t) ==
    IF "Tower" \in DOMAIN t THEN Levels(t) \o SubTypes(t.Tower.content)
    ELSE LET variant == VariantOf(t)
         IN  <<t>> \o
             ( CASE variant \in {"Optional", "Array"} -> SubTypes(t[variant].content)
                 [] variant = "Tuple" -> SubTypesOf(t.Tuple.content, 1)
                 [] variant \in {"Struct", "Enum"} ->
                       SubTypesOf([i \in 1..Len(t[variant].content) |->
                                      t[variant].content[i].value], 1)
                 [] OTHER -> <<>> )

RECURSIVE TypesOfEntries(_, _)
TypesOfEntries(map, i) ==
    IF i > Len(map) THEN <<>>
    ELSE SubTypes(map[i].value) \o TypesOfEntries(map, i + 1)

AllTypes(d) == TypesOfEntries(d.inversion_api_spec.types, 1)

\* ------------------------------------------------------------------------
\* The round trip of a document: tests::round_trip_encode_decode
\* ------------------------------------------------------------------------
VARIABLES pc, src, doc_, docs, res, doc2, res2

\* the Lazy<IApiSpecDoc> static of include_iapi_spec_doc!:
\*   data    the bytes the macro includes
\*   state   the state of the OnceCell: INCOMPLETE, RUNNING or COMPLETE
\*   value   the slot of the OnceCell, an Option
\*   init    whether the Lazy still holds its initializer
\*   tpc     where each thread stands
\*   local   the document a thread parsed and has not stored yet
\*   seen    what each thread read through the Lazy, in order
\*   runs    how many times the initializer ran
VARIABLES data, state, value, init, tpc, local, seen, runs

codecVars == <<pc, src, doc_, docs, res, doc2, res2>>

lazyVars == <<data, state, value, init, tpc, local, seen, runs>>

vars == <<pc, src, doc_, docs, res, doc2, res2,
          data, state, value, init, tpc, local, seen, runs>>

Threads == 1..NumThreads

\* how many times a thread reads through the Lazy
MaxReads == 2

\* the files the macro is given: the fixture, and a file that does not parse
FixtureFiles == {JSON_FIXTURE_SRC, Compact(JBad)}

\* a variable that holds nothing yet
NotYet == [unset |-> TRUE]

\* nothing was read or built yet
CodecInit ==
    /\ pc = "start"
    /\ src = NotYet
    /\ doc_ = NotYet
    /\ docs = NotYet
    /\ res = NotYet
    /\ doc2 = NotYet
    /\ res2 = NotYet

\* Lazy::new: the cell is empty and the initializer is held
LazyInit ==
    /\ state = "INCOMPLETE"
    /\ value = None
    /\ init = TRUE
    /\ tpc = [t \in Threads |-> "idle"]
    /\ local = [t \in Threads |-> None]
    /\ seen = [t \in Threads |-> <<>>]
    /\ runs = 0

Init == CodecInit /\ LazyInit /\ data = JSON_FIXTURE_SRC

\* the host obtains the bytes of a document
Read(text) ==
    /\ pc = "start"
    /\ src' = text
    /\ pc' = "read"
    /\ UNCHANGED <<doc_, docs, res, doc2, res2>>
    /\ UNCHANGED lazyVars

\* IApiSpecDoc::parse(data)
Parse ==
    /\ pc = "read"
    /\ doc_' = parse(src)
    /\ pc' = IF IsOk(parse(src)) THEN "parsed" ELSE "failed"
    /\ UNCHANGED <<src, docs, res, doc2, res2>>
    /\ UNCHANGED lazyVars

\* IApiSpecDoc { inversion_api_spec: IApiSpec { .. } }
Construct(d) ==
    /\ pc = "start"
    /\ doc_' = Ok(d)
    /\ pc' = "parsed"
    /\ UNCHANGED <<src, docs, res, doc2, res2>>
    /\ UNCHANGED lazyVars

\* Type::doc of every type of the document
ReadDocs ==
    /\ pc = "parsed"
    /\ docs' = [i \in 1..Len(AllTypes(doc_.Ok)) |->
                  [self |-> AllTypes(doc_.Ok)[i], doc |-> doc(AllTypes(doc_.Ok)[i])]]
    /\ pc' = "inspected"
    /\ UNCHANGED <<src, doc_, res, doc2, res2>>
    /\ UNCHANGED lazyVars

\* serde_json::to_string_pretty(&doc)
Encode ==
    /\ pc = "inspected"
    /\ res' = to_string_pretty(doc_.Ok)
    /\ pc' = "encoded"
    /\ UNCHANGED <<src, doc_, docs, doc2, res2>>
    /\ UNCHANGED lazyVars

\* serde_json::from_str(&res)
Reparse ==
    /\ pc = "encoded"
    /\ doc2' = from_slice(res)
    /\ pc' = IF IsOk(from_slice(res)) THEN "reparsed" ELSE "refused"
    /\ UNCHANGED <<src, doc_, docs, res, res2>>
    /\ UNCHANGED lazyVars

\* serde_json::to_string_pretty(&doc2)
Reencode ==
    /\ pc = "reparsed"
    /\ res2' = to_string_pretty(doc2.Ok)
    /\ pc' = "done"
    /\ UNCHANGED <<src, doc_, docs, res, doc2>>
    /\ UNCHANGED lazyVars

Next ==
    \/ \E text \in Inputs : Read(text)
    \/ Parse
    \/ \E d \in Built : Construct(d)
    \/ ReadDocs
    \/ Encode
    \/ Reparse
    \/ Reencode

Spec == Init /\ [][Next]_vars


\* ------------------------------------------------------------------------
\* once_cell::sync::Lazy: include_iapi_spec_doc!(JSON_FIXTURE, ..)
\* ------------------------------------------------------------------------
\* Lazy::force, the fast path of OnceCell::get_or_init: a COMPLETE cell is
\* read at once, any other state goes to initialize
Force(t) ==
    /\ tpc[t] = "idle"
    /\ Len(seen[t]) < MaxReads
    /\ tpc' = [tpc EXCEPT ![t] = IF state = "COMPLETE" THEN "deref" ELSE "initialize"]
    /\ UNCHANGED <<data, state, value, init, local, seen, runs>>

\* a RUNNING cell read instead of waited for
Initialize_nowait(t) ==
    /\ tpc[t] = "initialize"
    /\ state' = IF state = "INCOMPLETE" THEN "RUNNING" ELSE state
    /\ tpc' = [tpc EXCEPT ![t] = IF state = "INCOMPLETE" THEN "closure" ELSE "deref"]
    /\ UNCHANGED <<data, value, init, local, seen, runs>>

\* initialize_or_wait: a COMPLETE cell is read, an INCOMPLETE one is
\* claimed by compare-and-swap, a RUNNING one is waited for
Initialize(t) ==
    /\ tpc[t] = "initialize"
    /\ state' = IF state = "INCOMPLETE" THEN "RUNNING" ELSE state
    /\ tpc' = [tpc EXCEPT ![t] =
                 CASE state = "COMPLETE" -> "deref"
                   [] state = "INCOMPLETE" -> "closure"
                   [] state = "RUNNING" -> "wait"]
    /\ UNCHANGED <<data, value, init, local, seen, runs>>

\* a waiter sleeps until the guard of the running thread wakes it, and
\* looks at the state again
Wake(t) ==
    /\ tpc[t] = "wait"
    /\ state # "RUNNING"
    /\ tpc' = [tpc EXCEPT ![t] = "initialize"]
    /\ UNCHANGED <<data, state, value, init, local, seen, runs>>

\* the closure of Lazy::force takes the initializer; when it is gone the
\* closure panics and the guard puts the cell back to INCOMPLETE
Take(t) ==
    /\ tpc[t] = "closure"
    /\ init' = FALSE
    /\ IF init
       THEN tpc' = [tpc EXCEPT ![t] = "parse"] /\ state' = state
       ELSE tpc' = [tpc EXCEPT ![t] = "panicked"] /\ state' = "INCOMPLETE"
    /\ UNCHANGED <<data, value, local, seen, runs>>

\* the initializer: serde_json::from_slice(DATA).unwrap()
RunInit(t) ==
    /\ tpc[t] = "parse"
    /\ runs' = runs + 1
    /\ IF IsOk(from_slice(data))
       THEN /\ local' = [local EXCEPT ![t] = Some(from_slice(data).Ok)]
            /\ tpc' = [tpc EXCEPT ![t] = "store"]
            /\ state' = state
       ELSE /\ local' = local
            /\ tpc' = [tpc EXCEPT ![t] = "panicked"]
            /\ state' = "INCOMPLETE"
    /\ UNCHANGED <<data, value, init, seen>>

\* the value is written into the slot of the cell
Store(t) ==
    /\ tpc[t] = "store"
    /\ value' = local[t]
    /\ local' = [local EXCEPT ![t] = None]
    /\ tpc' = [tpc EXCEPT ![t] = "publish"]
    /\ UNCHANGED <<data, state, init, seen, runs>>

\* the guard is dropped: the cell becomes COMPLETE and the waiters wake
Publish(t) ==
    /\ tpc[t] = "publish"
    /\ state' = "COMPLETE"
    /\ tpc' = [tpc EXCEPT ![t] = "deref"]
    /\ UNCHANGED <<data, value, init, local, seen, runs>>

\* *JSON_FIXTURE: the slot is read
Deref(t) ==
    /\ tpc[t] = "deref"
    /\ seen' = [seen EXCEPT ![t] = Append(seen[t], value)]
    /\ tpc' = [tpc EXCEPT ![t] = "idle"]
    /\ UNCHANGED <<data, state, value, init, local, runs>>

LazyNext ==
    /\ \E t \in Threads :
          \/ Force(t)
          \/ Initialize(t)
          \/ Wake(t)
          \/ Take(t)
          \/ RunInit(t)
          \/ Store(t)
          \/ Publish(t)
          \/ Deref(t)
    /\ UNCHANGED codecVars

InitLazy == CodecInit /\ LazyInit /\ data \in FixtureFiles

LazySpec == InitLazy /\ [][LazyNext]_vars

\* ------------------------------------------------------------------------
\* Vocabulary of the properties
\* ------------------------------------------------------------------------
\* the document came from text handed to parse
FromText == src # NotYet

Decoded == IsOk(doc_)

Encoded == res # NotYet

Redecoded == pc \in {"reparsed", "done"}

\* Type::doc was asked of the types of the document
Inspected == pc \in {"inspected", "encoded", "reparsed", "refused", "done"}

SpecOf(text) == Get(text.tree, "inversionApiSpec")

TheSpec == doc_.Ok.inversion_api_spec

\* the value of the last member with the key
GetLast(j, key) ==
    j.obj[CHOOSE i \in 1..Len(j.obj) :
            j.obj[i].k = key /\ \A h \in (i + 1)..Len(j.obj) : j.obj[h].k # key].v

RECURSIVE FirstOccurrences(_)
\* a sequence of keys without the repetitions of a key
FirstOccurrences(keys) ==
    IF keys = <<>> THEN <<>>
    ELSE LET front == FirstOccurrences(SubSeq(keys, 1, Len(keys) - 1))
             last == keys[Len(keys)]
         IN  IF \E i \in 1..Len(front) : front[i] = last THEN front
             ELSE Append(front, last)

\* the map-typed fields of IApiSpec: the Rust name and the key of each
MapFields ==
    { <<"features", "features">>, <<"unstable_features", "unstableFeatures">>,
      <<"types", "types">>, <<"calls_out", "callsOut">>, <<"calls_in", "callsIn">> }

\* ------------------------------------------------------------------------
\* C1  Round trip
\* ------------------------------------------------------------------------
\* C1: a document obtained from a successful decode is encoded to a text
\* that decodes again, and to a document equal to the first one, whatever
\* the nesting of its types.
C1_RoundTrip ==
    (FromText /\ pc \in {"reparsed", "refused", "done"})
        => (IsOk(doc2) /\ doc2.Ok = doc_.Ok)

\* an Optional wrapping an Array wrapping a NamedType went round
C1_Witness ==
    /\ FromText
    /\ pc = "reparsed"
    /\ \E i \in 1..Len(TheSpec.types) :
          LET t == TheSpec.types[i].value
          IN  /\ "Optional" \in DOMAIN t
              /\ "Array" \in DOMAIN t.Optional.content
              /\ "NamedType" \in DOMAIN t.Optional.content.Array.content

\* ------------------------------------------------------------------------
\* C2  Byte fidelity
\* ------------------------------------------------------------------------
\* C2 as stated: every document produced by encode decodes, and encodes
\* again to the same text up to whitespace; so does the fixture.
C2_ByteFidelity ==
    /\ pc # "refused"
    /\ pc = "done" => Normalize(res2) = Normalize(res)
    /\ (src = JSON_FIXTURE_SRC /\ Encoded) => Normalize(res) = Normalize(src)

\* C2 amended: every document produced by encode whose arrays and objects
\* nest less deep than the recursion limit of the decoder decodes, and
\* encodes again to the same text up to whitespace; every document encoded
\* from a decoded one is such a document, and so is the fixture; a
\* document nested as deep as the limit is refused by decode.
C2_ByteFidelityWithinLimit ==
    /\ pc = "done" => Normalize(res2) = Normalize(res)
    /\ pc \in {"reparsed", "done"} => Depth(res.tree) < RecursionLimit
    /\ pc = "refused" => (~FromText /\ Depth(res.tree) >= RecursionLimit)
    /\ (src = JSON_FIXTURE_SRC /\ Encoded) => Normalize(res) = Normalize(src)

\* the deepest document the decoder reads went through encode, decode and
\* encode
C2_Witness ==
    /\ pc = "done"
    /\ Depth(res.tree) = RecursionLimit - 1
    /\ Normalize(res2) = Normalize(res)

\* ------------------------------------------------------------------------
\* C3  Order preservation
\* ------------------------------------------------------------------------
\* the entries of a decoded map stand in the order of the first appearance
\* of their keys in the text
DecodedInOrder(map, j) ==
    JKind(j) = "obj" => Keys(map) = FirstOccurrences(MemberKeys(j))

\* the members of an encoded map stand in the order of the entries
EncodedInOrder(map, j) == JKind(j) = "obj" /\ MemberKeys(j) = Keys(map)

IsStructOrEnum(t) == "Struct" \in DOMAIN t \/ "Enum" \in DOMAIN t

ContentOf(t) == IF "Struct" \in DOMAIN t THEN t.Struct.content ELSE t.Enum.content

\* C3: every map-typed field, and the content map of every Struct and Enum
\* of the types table, keeps the order of the text when decoded, and encode
\* writes the entries in that order.
C3_OrderPreserved ==
    /\ (FromText /\ Decoded /\ JKind(SpecOf(src)) = "obj") =>
          /\ \A f \in MapFields : DecodedInOrder(TheSpec[f[1]], Get(SpecOf(src), f[2]))
          /\ JKind(Get(SpecOf(src), "types")) = "obj" =>
                \A i \in 1..Len(TheSpec.types) :
                   LET t == TheSpec.types[i].value
                       j == GetLast(Get(SpecOf(src), "types"), TheSpec.types[i].key)
                   IN  (IsStructOrEnum(t) /\ JKind(j) = "obj")
                          => DecodedInOrder(ContentOf(t), Get(j, "content"))
    /\ Encoded =>
          /\ \A f \in MapFields : EncodedInOrder(TheSpec[f[1]], Get(SpecOf(res), f[2]))
          /\ \A i \in 1..Len(TheSpec.types) :
                LET t == TheSpec.types[i].value
                    j == Get(Get(SpecOf(res), "types"), TheSpec.types[i].key)
                IN  IsStructOrEnum(t) => EncodedInOrder(ContentOf(t), Get(j, "content"))

\* a types map whose keys are not in alphabetical order was decoded and
\* encoded
C3_Witness ==
    /\ FromText
    /\ Encoded
    /\ Len(TheSpec.types) = MaxKeys
    /\ TheSpec.types[1].key = "c"
    /\ TheSpec.types[2].key = "a"
    /\ MemberKeys(Get(SpecOf(res), "types")) = MemberKeys(Get(SpecOf(src), "types"))

\* ------------------------------------------------------------------------
\* C4  Omission of unset optional fields
\* ------------------------------------------------------------------------
RECURSIVE NoNull(_)
\* the tree holds no null
NoNull(j) ==
    CASE JKind(j) = "null" -> FALSE
      [] JKind(j) = "arr" -> \A i \in 1..Len(j.arr) : NoNull(j.arr[i])
      [] JKind(j) = "obj" -> \A i \in 1..Len(j.obj) : NoNull(j.obj[i].v)
      [] JKind(j) = "nest" -> NoNull(j.nest.inner)
      [] OTHER -> TRUE

RECURSIVE StripNulls(_)
\* the tree without the members of its objects that are null
StripNulls(j) ==
    CASE JKind(j) = "arr" -> JArr([i \in 1..Len(j.arr) |-> StripNulls(j.arr[i])])
      [] JKind(j) = "obj" ->
            LET kept == SelectSeq(j.obj, LAMBDA e : JKind(e.v) # "null")
            IN  JObj([i \in 1..Len(kept) |-> KV(kept[i].k, StripNulls(kept[i].v))])
      [] OTHER -> j

\* an optional field is a member of the encoded record exactly when it is set
WrittenIffSet(option, j, key) == Has(j, key) <=> option # None

\* the entries of a map, each with its encoded member
EncodedEntries(map, j) ==
    {<<map[i].value, Get(j, map[i].key)>> : i \in 1..Len(map)}

StoredDoc(t) == IF "Tower" \in DOMAIN t THEN None ELSE t[VariantOf(t)].doc

\* C4: an unset optional field is absent from the encoded form, which holds
\* no null at all, and a text with an explicit null for an optional field
\* decodes to the same document as the text without that member.
C4_Omission ==
    /\ Encoded =>
          /\ NoNull(res.tree)
          /\ WrittenIffSet(TheSpec.unique, SpecOf(res), "unique")
          /\ \A e \in EncodedEntries(TheSpec.features, Get(SpecOf(res), "features")) :
                /\ WrittenIffSet(e[1].doc, e[2], "doc")
                /\ WrittenIffSet(e[1].deprecated, e[2], "deprecated")
          /\ \A e \in EncodedEntries(TheSpec.unstable_features,
                                     Get(SpecOf(res), "unstableFeatures")) :
                WrittenIffSet(e[1].doc, e[2], "doc")
          /\ \A f \in {<<"calls_out", "callsOut">>, <<"calls_in", "callsIn">>} :
                \A e \in EncodedEntries(TheSpec[f[1]], Get(SpecOf(res), f[2])) :
                   WrittenIffSet(e[1].doc, e[2], "doc")
          /\ \A e \in EncodedEntries(TheSpec.types, Get(SpecOf(res), "types")) :
                WrittenIffSet(StoredDoc(e[1]), Unfold(e[2]), "doc")
    /\ (FromText /\ Decoded) =>
          parse([src EXCEPT !.tree = StripNulls(src.tree)]) = doc_

\* a text with "unique": null was decoded to unique = None and encoded
\* without the key
C4_Witness ==
    /\ FromText
    /\ Encoded
    /\ JKind(Get(SpecOf(src), "unique")) = "null"
    /\ TheSpec.unique = None
    /\ ~Has(SpecOf(res), "unique")

\* ------------------------------------------------------------------------
\* C5  All-or-nothing decode
\* ------------------------------------------------------------------------
IsOption(x, S) == x = None \/ (Len(x) = 1 /\ x[1] \in S)

IsRecord(x, names) == DOMAIN x = names

RECURSIVE IsType(_)
IsStructContent(x) ==
    /\ IsRecord(x, {"index", "content"})
    /\ x.index \in Nat
    /\ IsType(x.content)

\* a fully-formed Type
IsType(t) ==
    IF "Tower" \in DOMAIN t THEN t.Tower.height \in Nat /\ IsType(t.Tower.content)
    ELSE /\ \E v \in Variants : DOMAIN t = {v}
         /\ LET variant == VariantOf(t)
                x == t[variant]
            IN  /\ IsOption(x.doc, STRING)
                /\ CASE variant \in {"Optional", "Array"} ->
                            IsRecord(x, {"doc", "content"}) /\ IsType(x.content)
                     [] variant = "Tuple" ->
                            /\ IsRecord(x, {"doc", "content"})
                            /\ \A i \in 1..Len(x.content) : IsStructContent(x.content[i])
                     [] variant \in {"Struct", "Enum"} ->
                            /\ IsRecord(x, {"doc", "content"})
                            /\ \A i \in 1..Len(x.content) :
                                  /\ x.content[i].key \in STRING
                                  /\ IsStructContent(x.content[i].value)
                     [] variant = "NamedType" ->
                            IsRecord(x, {"doc", "content"}) /\ x.content \in STRING
                     [] OTHER -> IsRecord(x, {"doc"})

UniqueKeys(map) ==
    \A i, h \in 1..Len(map) : map[i].key = map[h].key => i = h

IsFeature(x) ==
    /\ IsRecord(x, {"doc", "stablized_revision", "deprecated"})
    /\ IsOption(x.doc, STRING)
    /\ x.stablized_revision \in Nat
    /\ IsOption(x.deprecated, BOOLEAN)

IsUnstableFeature(x) == IsRecord(x, {"doc"}) /\ IsOption(x.doc, STRING)

IsCall(x) ==
    /\ IsRecord(x, {"doc", "feature", "input", "output"})
    /\ IsOption(x.doc, STRING)
    /\ x.feature \in STRING /\ x.input \in STRING /\ x.output \in STRING

\* a fully-formed IApiSpecDoc: every field of every record holds a value of
\* its declared type
IsIApiSpecDoc(d) ==
    /\ IsRecord(d, {"inversion_api_spec"})
    /\ LET x == d.inversion_api_spec
       IN  /\ IsRecord(x, {"id", "title", "revision", "error_type", "unique",
                           "features", "unstable_features", "types",
                           "calls_out", "calls_in"})
           /\ x.id \in STRING /\ x.title \in STRING /\ x.error_type \in STRING
           /\ x.revision \in Nat
           /\ IsOption(x.unique, BOOLEAN)
           /\ \A f \in MapFields : UniqueKeys(x[f[1]])
           /\ \A i \in 1..Len(x.features) : IsFeature(x.features[i].value)
           /\ \A i \in 1..Len(x.unstable_features) :
                 IsUnstableFeature(x.unstable_features[i].value)
           /\ \A i \in 1..Len(x.types) : IsType(x.types[i].value)
           /\ \A i \in 1..Len(x.calls_out) : IsCall(x.calls_out[i].value)
           /\ \A i \in 1..Len(x.calls_in) : IsCall(x.calls_in[i].value)

\* the text is not well-formed JSON
Malformed(text) == ~WellFormed(text.tree) \/ text.trailing

\* a type of the types table is an object whose discriminant names no
\* variant
UnknownDiscriminant(text) ==
    LET types == Get(SpecOf(text), "types")
    IN  /\ JKind(types) = "obj"
        /\ \E i \in 1..Len(types.obj) :
              /\ JKind(types.obj[i].v) = "obj"
              /\ JKind(Get(types.obj[i].v, "type")) = "str"
              /\ Get(types.obj[i].v, "type").str \notin Tags

RequiredKeys == SpecKeys \ {"unique"}

\* the spec object lacks a required field
MissingRequired(text) ==
    JKind(SpecOf(text)) = "obj" /\ \E k \in RequiredKeys : ~Has(SpecOf(text), k)

\* the JSON types a field of the spec is declared to take
DeclaredKinds(key) ==
    CASE key \in {"id", "title", "errorType"} -> {"str"}
      [] key = "revision" -> {"num", "big"}
      [] key = "unique" -> {"bool", "null"}
      [] OTHER -> {"obj"}

\* a field of the spec object is present with a value of another JSON type
TypeMismatch(text) ==
    /\ JKind(SpecOf(text)) = "obj"
    /\ \E k \in SpecKeys :
          /\ Has(SpecOf(text), k)
          /\ JKind(Get(SpecOf(text), k)) \notin DeclaredKinds(k) \cup {"bad"}

\* C5: parse returns either a fully-formed document or an error wrapped in
\* an io error; malformed text, an unknown discriminant, a missing required
\* field and a present field of the wrong type each end in the error.
C5_AllOrNothing ==
    (FromText /\ pc # "read") =>
        /\ (Malformed(src) \/ UnknownDiscriminant(src) \/ MissingRequired(src)
              \/ TypeMismatch(src)) => IsErr(doc_)
        /\ IsOk(doc_) \/ IsErr(doc_)
        /\ IsErr(doc_) => (pc = "failed" /\ doc_.Err.kind = "Other")
        /\ IsOk(doc_) => (pc # "failed" /\ IsIApiSpecDoc(doc_.Ok))

\* a type with the discriminant float128 ended in the error result
C5_Witness ==
    /\ pc = "failed"
    /\ IsErr(doc_)
    /\ JKind(Get(SpecOf(src), "types")) = "obj"
    /\ \E i \in 1..Len(Get(SpecOf(src), "types").obj) :
          Get(Get(SpecOf(src), "types").obj[i].v, "type") = JStr("float128")

\* ------------------------------------------------------------------------
\* C6  Distinct failure kinds
\* ------------------------------------------------------------------------
\* the cause for which a text fails to decode
Cause(text) ==
    CASE Malformed(text) -> "malformed input"
      [] ~Malformed(text) /\ UnknownDiscriminant(text) -> "unknown discriminant"
      [] ~Malformed(text) /\ ~UnknownDiscriminant(text) /\ MissingRequired(text) ->
            "missing field"
      [] ~Malformed(text) /\ ~UnknownDiscriminant(text) /\ ~MissingRequired(text)
            /\ TypeMismatch(text) -> "type mismatch"
      [] OTHER -> "other"

\* one text for each of the four causes
Failing ==
    { Compact(JBad),
      WithTypes(<<KV("t", PrimJ("float128"))>>),
      Compact(DocJ(Drop(FixtureMembers, "title"))),
      WithField("revision", JStr("x")) }

\* C6: two texts that fail to decode for different causes are returned
\* errors of different kinds.
C6_DistinctKinds ==
    (pc = "failed" /\ Cause(src) # "other") =>
        \A other \in Failing :
            (Cause(other) # Cause(src) /\ IsErr(parse(other)))
                => parse(other).Err.kind # doc_.Err.kind

\* ------------------------------------------------------------------------
\* C7  StructContent shape
\* ------------------------------------------------------------------------
\* the StructContent objects of a type of the text, each with the decoded
\* entry and the encoded object at the same place
StructContentTriples(j, t, out) ==
    IF JKind(j) # "obj" \/ "Tower" \in DOMAIN t THEN {}
    ELSE CASE "Tuple" \in DOMAIN t /\ JKind(Get(j, "content")) = "arr" ->
                {<<Get(j, "content").arr[i], t.Tuple.content[i], Get(out, "content").arr[i]>> :
                    i \in 1..Len(t.Tuple.content)}
           [] IsStructOrEnum(t) /\ JKind(Get(j, "content")) = "obj" ->
                {<<GetLast(Get(j, "content"), ContentOf(t)[i].key),
                   ContentOf(t)[i].value,
                   Get(Get(out, "content"), ContentOf(t)[i].key)>> :
                    i \in 1..Len(ContentOf(t))}
           [] OTHER -> {}

\* the triples of every type of the types table
AllStructContentTriples ==
    IF JKind(Get(SpecOf(src), "types")) # "obj" THEN {}
    ELSE UNION {StructContentTriples(
                    GetLast(Get(SpecOf(src), "types"), TheSpec.types[i].key),
                    TheSpec.types[i].value,
                    Get(Get(SpecOf(res), "types"), TheSpec.types[i].key)) :
                  i \in 1..Len(TheSpec.types)}

\* C7: a StructContent whose doc is set in the text decodes to an entry
\* that holds the doc, the index and the nested type, and is encoded with
\* all three.
C7_StructContentKeepsDoc ==
    (FromText /\ Encoded /\ JKind(SpecOf(src)) = "obj") =>
        \A e \in AllStructContentTriples :
            (JKind(e[1]) = "obj" /\ JKind(Get(e[1], "doc")) = "str") =>
                /\ "doc" \in DOMAIN e[2]
                /\ e[2].doc = Some(Get(e[1], "doc").str)
                /\ Get(e[3], "doc") = Get(e[1], "doc")
                /\ Get(e[3], "index") = Get(e[1], "index")

\* ------------------------------------------------------------------------
\* C8  Type tagging
\* ------------------------------------------------------------------------
\* the fifteen discriminants, by variant
ClaimedTag(variant) ==
    CASE variant = "Null" -> "null"
      [] variant = "Bool" -> "bool"
      [] variant = "I32" -> "i32"
      [] variant = "U32" -> "u32"
      [] variant = "I64" -> "i64"
      [] variant = "U64" -> "u64"
      [] variant = "F64" -> "f64"
      [] variant = "Bytes" -> "bytes"
      [] variant = "String" -> "string"
      [] variant = "Optional" -> "optional"
      [] variant = "Array" -> "array"
      [] variant = "Tuple" -> "tuple"
      [] variant = "Struct" -> "struct"
      [] variant = "Enum" -> "enum"
      [] variant = "NamedType" -> "namedType"

RECURSIVE TaggedFlat(_, _)
\* the tree is the type written as one object: the discriminant under the
\* key type, then doc (when set) and content (when declared) beside it
TaggedFlat(t, j) ==
    IF "Tower" \in DOMAIN t
    THEN JKind(j) = "nest" /\ TaggedFlat(t.Tower.content, j.nest.inner)
    ELSE LET variant == VariantOf(t)
             x == t[variant]
             hasContent == "content" \in DOMAIN x
         IN  /\ JKind(j) = "obj"
             /\ MemberKeys(j) = <<"type">>
                                \o (IF x.doc = None THEN <<>> ELSE <<"doc">>)
                                \o (IF hasContent THEN <<"content">> ELSE <<>>)
             /\ Get(j, "type") = JStr(ClaimedTag(variant))
             /\ x.doc # None => Get(j, "doc") = JStr(x.doc[1])
             /\ CASE variant \in {"Optional", "Array"} ->
                        TaggedFlat(x.content, Get(j, "content"))
                  [] variant = "Tuple" ->
                        /\ JKind(Get(j, "content")) = "arr"
                        /\ Len(Get(j, "content").arr) = Len(x.content)
                        /\ \A i \in 1..Len(x.content) :
                              TaggedFlat(x.content[i].content,
                                         Get(Get(j, "content").arr[i], "content"))
                  [] variant \in {"Struct", "Enum"} ->
                        \A i \in 1..Len(x.content) :
                           TaggedFlat(x.content[i].value.content,
                                      Get(Get(Get(j, "content"), x.content[i].key), "content"))
                  [] variant = "NamedType" -> Get(j, "content") = JStr(x.content)
                  [] OTHER -> TRUE

\* C8: every Type is encoded as one object with the discriminant type and
\* the fields of the variant beside it; the discriminants are the fifteen
\* names, one per variant, and decode maps each back to its variant.
C8_TypeTagging ==
    /\ Encoded =>
          \A i \in 1..Len(TheSpec.types) :
             TaggedFlat(TheSpec.types[i].value,
                        Get(Get(SpecOf(res), "types"), TheSpec.types[i].key))
    /\ Cardinality(Variants) = 15
    /\ Cardinality(Tags) = 15
    /\ \A v \in Variants : TagOf(v) = ClaimedTag(v) /\ VariantOfTag(TagOf(v)) = v
    /\ Redecoded =>
          /\ Len(AllTypes(doc2.Ok)) = Len(AllTypes(doc_.Ok))
          /\ \A i \in 1..Len(AllTypes(doc_.Ok)) :
                VariantOf(AllTypes(doc2.Ok)[i]) = VariantOf(AllTypes(doc_.Ok)[i])

\* a NamedType with its doc set was encoded and decoded again
C8_Witness ==
    /\ Redecoded
    /\ \E i \in 1..Len(TheSpec.types) :
          /\ "NamedType" \in DOMAIN TheSpec.types[i].value
          /\ TheSpec.types[i].value.NamedType.doc # None
          /\ Get(Get(Get(SpecOf(res), "types"), TheSpec.types[i].key), "type")
                = JStr("namedType")

\* ------------------------------------------------------------------------
\* C9  Type::doc
\* ------------------------------------------------------------------------
\* C9: for every type of a document, nested ones included, doc() returns
\* the doc stored in that very value.
C9_DocAccessor ==
    Inspected =>
        \A i \in 1..Len(docs) :
            /\ VariantOf(docs[i].self) \in Variants
            /\ docs[i].doc = StoredDoc(docs[i].self)

\* doc() was asked of a type whose own doc differs from the doc of the
\* type nested in it, and of a type of each of the fifteen variants
C9_Witness ==
    /\ Inspected
    /\ \E i \in 1..Len(docs) :
          /\ "Array" \in DOMAIN docs[i].self
          /\ docs[i].doc = Some("outer")
          /\ StoredDoc(docs[i].self.Array.content) = Some("inner")

\* ------------------------------------------------------------------------
\* C10  The lazy fixture
\* ------------------------------------------------------------------------
\* the initializer ran at most once, every value read through the Lazy is
\* the parsed fixture, and a reader only reads a COMPLETE cell
ReadersAgree ==
    /\ runs <= 1
    /\ \A t \in Threads :
          /\ tpc[t] = "deref" => state = "COMPLETE"
          /\ \A i \in 1..Len(seen[t]) : seen[t][i] = Some(from_slice(data).Ok)
    /\ state = "COMPLETE" => value = Some(from_slice(data).Ok)

\* a COMPLETE cell stays COMPLETE and keeps its value
Frozen == state = "COMPLETE" => (state' = "COMPLETE" /\ value' = value)

\* C10: under every interleaving of the threads the initializer runs at
\* most once, no reader sees the value before the initialization is
\* complete, all readers see the same parsed document, and the value of
\* an initialized cell never changes.
C10_LazyOnce == []ReadersAgree /\ [][Frozen]_vars

\* the initializer ran and every thread read the fixture through the Lazy
\* as often as it may
C10_Witness ==
    /\ runs = 1
    /\ \A t \in Threads : Len(seen[t]) = MaxReads
    /\ \A t \in Threads : seen[t][1] = Some(from_slice(JSON_FIXTURE_SRC).Ok)

====
